---- MODULE Spec2Model ----
(***************************************************************************)
(* Model of the pull request creation workflow:                            *)
(*   src/chatgpt_code_worker/pr_creator/workflow.py  (activities, run)     *)
(*   src/temporalio/__init__.py                      (execute_activity)    *)
(*   src/pull_request_manager/controller.py          (controller)          *)
(*                                                                         *)
(* A Python str is a sequence of atoms.  An atom is either one character   *)
(* ("/", a digit, "<", ">", " ") or an indivisible piece of text ("git",   *)
(* "--force", "main").  The empty string is << >>.  The atoms used for     *)
(* inputs are chosen so that two different sequences never denote the same *)
(* text, hence equality of sequences is equality of strings.               *)
(***************************************************************************)
EXTENDS Integers, Sequences, FiniteSets, TLC

VARIABLES
    flag,          \* PullRequestFeatureFlags.enable_caas_workflow of the controller
    ctl,           \* per call of create_pull_request: position of the call
    request,       \* per call: the CreatePullRequestRequest
    runner_calls,  \* per call: number of times the runner's run was invoked
    response,      \* per call: the CreatePullRequestResponse returned, or None
    raised,        \* per call: the exception create_pull_request raised, or None
    wf_input,      \* per run: CreatePullRequestWorkflowInput
    wf_state,      \* per run: state of CreatePullRequestWorkflow.run
    visited,       \* per run: the states run has passed through, in order
    in_flight,     \* per run: activities invoked and not yet returned
    invoked,       \* per run: history of activity invocations [fn, input]
    returned,      \* per run: history of the activities that returned
    locals,        \* per run: what run keeps of the activity results
    steps,         \* per run: the list `steps` of run
    wf_result,     \* per run: CreatePullRequestWorkflowResult returned by run, or None
    failure,       \* per run: the exception the failing activity raised, or None
    wf_error,      \* per run: the exception that left run, or None
    drawn,         \* per run: the values uuid4() yielded to the run's activities, in order
    call           \* a direct invocation of one activity function: [fn, input, result]

vars == << flag, ctl, request, runner_calls, response, raised, wf_input, wf_state, visited,
           in_flight, invoked, returned, locals, steps, wf_result, failure,
           wf_error, drawn, call >>

ctlVars == << flag, ctl, request, runner_calls, response, raised >>
wfVars == << wf_input, wf_state, visited, in_flight, invoked, returned, locals, steps,
             wf_result, failure, wf_error, drawn >>

----------------------------------------------------------------------------
(* Bounds *)

MaxRuns == 2       \* concurrent calls of create_pull_request (one run each)
MaxUuid == 2       \* number of distinct values uuid4() can yield
MaxDepth == 12     \* largest clone depth drawn as input

Runs == 1..MaxRuns

----------------------------------------------------------------------------
(* Python values *)

None == [none |-> TRUE]
Some(v) == [none |-> FALSE, val |-> v]

\* Truth value of an Optional[Sequence]: None and the empty sequence are falsy.
Truthy(opt) == (~opt.none) /\ opt.val # << >>

Last(s) == s[Len(s)]

RECURSIVE rstrip(_, _)
\* str.rstrip(chars): drop every trailing character that is in chars.
rstrip(s, chars) ==
    IF s = << >> THEN s
    ELSE IF Last(s) \in chars THEN rstrip(SubSeq(s, 1, Len(s) - 1), chars)
    ELSE s

Digits == << "0", "1", "2", "3", "4", "5", "6", "7", "8", "9" >>

RECURSIVE NatToStr(_)
NatToStr(n) ==
    IF n < 10 THEN << Digits[n + 1] >>
    ELSE NatToStr(n \div 10) \o << Digits[(n % 10) + 1] >>

\* format of an int inside an f-string
IntToStr(n) == IF n < 0 THEN << "-" >> \o NatToStr(0 - n) ELSE NatToStr(n)

\* [arg for arg in command if arg]
FilterNonEmpty(command) == SelectSeq(command, LAMBDA arg : arg # << >>)

\* [[arg for arg in command if arg] for command in commands]
NormalizeCommands(commands) ==
    [i \in 1..Len(commands) |-> FilterNonEmpty(commands[i])]

\* uuid4().hex: the values the generator can yield
Uuid(i) == << "u", Digits[i + 1] >>
Uuids == { Uuid(i) : i \in 1..MaxUuid }

----------------------------------------------------------------------------
(* Data model defaults *)

ContainerConfig_workspace_dir == << "/", "workspace" >>
GitCloneOptions_depth == 1
SedimentArtifact_filename == << "sediment.patch" >>
PushOptions_default == [remote |-> << "origin" >>, force |-> FALSE]
CloneRepositoryActivityInput_checkout_path == << "repo" >>

----------------------------------------------------------------------------
(* Activities *)

\* start_caas_container that hands out one and the same container.
start_fixed_container(container, uuid) ==
    LET container_id == << "caas-", "u", "0" >>
    IN  [container_id |-> container_id, workspace_dir |-> container.workspace_dir]

\* start_caas_container that gives every container a workspace of its own.
start_in_own_workspace(container, uuid) ==
    LET container_id == << "caas-" >> \o uuid
    IN  [container_id |-> container_id,
         workspace_dir |-> container.workspace_dir \o << "/" >> \o container_id]

start_caas_container(container, uuid) ==
    LET container_id == << "caas-" >> \o uuid
    IN  [container_id |-> container_id, workspace_dir |-> container.workspace_dir]

\* The commands of clone_repository for the resolved checkout path.
CloneCommands(input, checkout_full_path) ==
    LET command == << << "git" >>,
                      << "clone" >>,
                      << "--filter=blob:none" >>,
                      << "--sparse" >>,
                      << "--depth=" >> \o IntToStr(input.options.depth),
                      << "--branch=" >> \o input.options.branch,
                      << "--single-branch" >>,
                      input.options.repository_url,
                      checkout_full_path >>
    IN  IF Truthy(input.options.sparse_paths)
        THEN << command,
                << << "git" >>, << "-C" >>, checkout_full_path,
                   << "sparse-checkout" >>, << "set" >> >>
                \o input.options.sparse_paths.val >>
        ELSE << command >>

CloneResult(input, checkout_full_path) ==
    [repository_path |-> checkout_full_path,
     commands |-> CloneCommands(input, checkout_full_path)]

\* clone_repository with the sparse-checkout command emitted unconditionally.
clone_force_sparse(input) ==
    LET result == CloneResult(input,
                      rstrip(input.container.workspace_dir \o << "/" >> \o input.checkout_path,
                             {"/"}))
    IN  [result EXCEPT !.commands =
            << result.commands[1],
               << << "git" >>, << "-C" >>, result.repository_path,
                  << "sparse-checkout" >>, << "set" >> >>
               \o (IF input.options.sparse_paths.none THEN << >>
                   ELSE input.options.sparse_paths.val) >>]

clone_repository(input) ==
    CloneResult(input,
                rstrip(input.container.workspace_dir \o << "/" >> \o input.checkout_path,
                       {"/"}))

\* apply_sediment_patch that applies the patch before uploading it.
apply_before_upload(input) ==
    LET remote_path == input.repository_path \o << "/" >> \o input.sediment.filename
    IN  [commands |->
            << << << "artifact" >>, << "download" >>, input.sediment.storage_key,
                  input.sediment.filename >>,
               << << "git" >>, << "-C" >>, input.repository_path, << "apply" >>,
                  input.sediment.filename >>,
               << << "caas" >>, << "upload" >>, input.sediment.filename, remote_path >> >> ]

apply_sediment_patch(input) ==
    LET remote_path == input.repository_path \o << "/" >> \o input.sediment.filename
    IN  [commands |->
            << << << "artifact" >>, << "download" >>, input.sediment.storage_key,
                  input.sediment.filename >>,
               << << "caas" >>, << "upload" >>, input.sediment.filename, remote_path >>,
               << << "git" >>, << "-C" >>, input.repository_path, << "apply" >>,
                  input.sediment.filename >> >> ]

push_always_force(input, uuid) ==
    [commands |->
        << << << "git" >>, << "-C" >>, input.repository_path, << "checkout" >>,
              input.base_branch >>,
           << << "git" >>, << "-C" >>, input.repository_path, << "checkout" >>,
              << "-B" >>, input.new_branch >>,
           << << "git" >>, << "-C" >>, input.repository_path, << "commit" >>,
              << "--all" >>, << "--message" >>, input.commit.message, << "--author" >>,
              input.commit.author_name \o << " ", "<" >> \o input.commit.author_email
                  \o << ">" >> >>,
           << << "git" >>, << "-C" >>, input.repository_path, << "push" >>,
              input.push.remote, input.new_branch, << "--force" >> >> >>,
     commit_sha |-> uuid]

create_branch_and_push(input, uuid) ==
    LET commit_sha == uuid
        commands ==
            << << << "git" >>, << "-C" >>, input.repository_path, << "checkout" >>,
                  input.base_branch >>,
               << << "git" >>, << "-C" >>, input.repository_path, << "checkout" >>,
                  << "-B" >>, input.new_branch >>,
               << << "git" >>, << "-C" >>, input.repository_path, << "commit" >>,
                  << "--all" >>, << "--message" >>, input.commit.message,
                  << "--author" >>,
                  input.commit.author_name \o << " ", "<" >>
                      \o input.commit.author_email \o << ">" >> >>,
               << << "git" >>, << "-C" >>, input.repository_path, << "push" >>,
                  input.push.remote, input.new_branch,
                  IF input.push.force THEN << "--force" >> ELSE << >> >> >>
        normalized_commands == NormalizeCommands(commands)
    IN  [commands |-> normalized_commands, commit_sha |-> commit_sha]

----------------------------------------------------------------------------
(* Controller: request, response and workflow input *)

RepoUrl == << "https:", "/", "/", "example.com", "/", "repo.git" >>

DefaultContainerConfig ==
    [image |-> << "ghcr.io/openai/chatgpt-code-worker:latest" >>,
     command |-> << << "/bin/bash" >> >>,
     workspace_dir |-> ContainerConfig_workspace_dir]

\* The requests create_pull_request is called with: a well-formed one without
\* push options, and one with an empty repository URL and commit message that
\* asks for a forced push to another remote.
Requests ==
    { [repository_url |-> RepoUrl, base_branch |-> << "main" >>,
       new_branch |-> << "feature" >>,
       sediment_storage_key |-> << "sediment-key" >>,
       commit_message |-> << "Apply sediment" >>,
       author_name |-> << "Ada Lovelace" >>, author_email |-> << "ada@example.com" >>,
       push_options |-> None],
      [repository_url |-> << >>, base_branch |-> << "main" >>,
       new_branch |-> << "hotfix" >>,
       sediment_storage_key |-> << "sediment-key" >>, commit_message |-> << >>,
       author_name |-> << "Ada Lovelace" >>, author_email |-> << "ada@example.com" >>,
       push_options |-> Some([remote |-> << "upstream" >>, force |-> TRUE])] }

\* Exceptions an activity can raise through workflow.execute_activity.
Errors == { "ActivityFailure" }

BuildWorkflowInput(config, req) ==
    [container |-> config,
     clone |-> [repository_url |-> req.repository_url, branch |-> req.base_branch,
                depth |-> GitCloneOptions_depth, sparse_paths |-> None],
     sediment |-> [storage_key |-> req.sediment_storage_key,
                   filename |-> SedimentArtifact_filename],
     new_branch |-> req.new_branch,
     commit |-> [message |-> req.commit_message, author_name |-> req.author_name,
                 author_email |-> req.author_email],
     push |-> IF req.push_options.none THEN PushOptions_default
              ELSE req.push_options.val]

\* The legacy path reporting the workflow as used.
legacy_used_workflow(req) ==
    [branch |-> req.new_branch, commit_sha |-> << >>,
     used_temporal_workflow |-> TRUE, steps |-> << >>]

_legacy_create_pull_request(req) ==
    [branch |-> req.new_branch, commit_sha |-> << >>,
     used_temporal_workflow |-> FALSE, steps |-> << >>]

\* _ensure_iterable: every command the activities build is a list, so the
\* TypeError branch is never taken and the commands are returned as given.
_ensure_iterable(commands) == commands

\* MapResponse taking the commit sha from the container id.
MapResponse_mixup(result) ==
    [branch |-> result.new_branch, commit_sha |-> result.container_id,
     used_temporal_workflow |-> TRUE,
     steps |-> [i \in 1..Len(result.steps) |->
                   [result.steps[i] EXCEPT
                       !.commands = _ensure_iterable(result.steps[i].commands)]]]

MapResponse(result) ==
    [branch |-> result.new_branch, commit_sha |-> result.commit_sha,
     used_temporal_workflow |-> TRUE,
     steps |-> [i \in 1..Len(result.steps) |->
                   [result.steps[i] EXCEPT
                       !.commands = _ensure_iterable(result.steps[i].commands)]]]

----------------------------------------------------------------------------
(* Workflow: CreatePullRequestWorkflow.run *)

ActivityOrder == << "start_caas_container", "clone_repository",
                    "apply_sediment_patch", "create_branch_and_push" >>
StepNames == << << "start-container" >>, << "clone-repository" >>,
                << "apply-sediment" >>, << "push-branch" >> >>
StateOrder == << "NotStarted", "ContainerStarted", "Cloned", "PatchApplied",
                 "Pushed", "Completed" >>

StateIndex(s) == CHOOSE i \in 1..Len(StateOrder) : StateOrder[i] = s

\* What run keeps of the activity results across a suspension: the container
\* handle, clone_result.repository_path and push_result.commit_sha (the command
\* lists go into the step log as soon as the activity returns).
NoLocals == [container_handle |-> None, repository_path |-> None, commit_sha |-> None]

\* NextActivity with the patch applied before the repository is cloned.
NextActivity_swapped(s) ==
    << "start_caas_container", "apply_sediment_patch", "clone_repository",
       "create_branch_and_push" >>[StateIndex(s)]

\* The activity run invokes next in state s, and the input it passes.
NextActivity(s) == ActivityOrder[StateIndex(s)]

\* ActivityInput that checks out the new branch as the base of the push.
ActivityInput_new_as_base(s, input, loc) ==
    CASE s = "NotStarted" -> input.container
      [] s = "ContainerStarted" ->
            [container |-> loc.container_handle.val, options |-> input.clone,
             checkout_path |-> CloneRepositoryActivityInput_checkout_path]
      [] s = "Cloned" ->
            [container |-> loc.container_handle.val,
             repository_path |-> loc.repository_path.val,
             sediment |-> input.sediment]
      [] s = "PatchApplied" ->
            [container |-> loc.container_handle.val,
             repository_path |-> loc.repository_path.val,
             new_branch |-> input.new_branch,
             base_branch |-> input.new_branch,
             commit |-> input.commit,
             push |-> input.push]

ActivityInput(s, input, loc) ==
    CASE s = "NotStarted" -> input.container
      [] s = "ContainerStarted" ->
            [container |-> loc.container_handle.val, options |-> input.clone,
             checkout_path |-> CloneRepositoryActivityInput_checkout_path]
      [] s = "Cloned" ->
            [container |-> loc.container_handle.val,
             repository_path |-> loc.repository_path.val,
             sediment |-> input.sediment]
      [] s = "PatchApplied" ->
            [container |-> loc.container_handle.val,
             repository_path |-> loc.repository_path.val,
             new_branch |-> input.new_branch,
             base_branch |-> input.clone.branch,
             commit |-> input.commit,
             push |-> input.push]

WorkflowStep(name, description, commands) ==
    [name |-> name, description |-> description, commands |-> commands]

Init ==
    /\ flag \in BOOLEAN
    /\ ctl = [r \in Runs |-> "idle"]
    /\ request = [r \in Runs |-> None]
    /\ runner_calls = [r \in Runs |-> 0]
    /\ response = [r \in Runs |-> None]
    /\ raised = [r \in Runs |-> None]
    /\ wf_input = [r \in Runs |-> None]
    /\ wf_state = [r \in Runs |-> "NotStarted"]
    /\ visited = [r \in Runs |-> << "NotStarted" >>]
    /\ in_flight = [r \in Runs |-> {}]
    /\ invoked = [r \in Runs |-> << >>]
    /\ returned = [r \in Runs |-> << >>]
    /\ locals = [r \in Runs |-> NoLocals]
    /\ steps = [r \in Runs |-> << >>]
    /\ wf_result = [r \in Runs |-> None]
    /\ failure = [r \in Runs |-> None]
    /\ wf_error = [r \in Runs |-> None]
    /\ drawn = [r \in Runs |-> << >>]
    /\ call = None

\* The calls of create_pull_request are numbered in the order they are made:
\* call r is the next one when the calls before it have been made.
NextCall(r) ==
    /\ ctl[r] = "idle"
    /\ \A q \in 1..(r - 1) : ctl[q] # "idle"

\* What the next uuid4() can yield.  The values are opaque and only compared
\* for equality, so the outcomes are: any value yielded before (a collision),
\* or a new one, for which the first value not yet yielded stands.
UuidsDrawn == UNION { { drawn[r][i] : i \in 1..Len(drawn[r]) } : r \in Runs }
UuidOutcomes ==
    { Uuid(i) : i \in { j \in 1..MaxUuid : \A k \in 1..(j - 1) : Uuid(k) \in UuidsDrawn } }

\* create_pull_request with the feature flag off: the legacy path.
CreatePullRequestLegacy(r, req) ==
    /\ NextCall(r)
    /\ ~flag
    /\ request' = [request EXCEPT ![r] = Some(req)]
    /\ response' = [response EXCEPT ![r] = Some(_legacy_create_pull_request(req))]
    /\ ctl' = [ctl EXCEPT ![r] = "returned"]
    /\ UNCHANGED << flag, runner_calls, raised, wfVars, call >>

\* ExecuteActivity that loses the invocation of apply_sediment_patch: run is
\* suspended on an activity nobody executes.
ExecuteActivity_lost(r, done, s, input, loc) ==
    /\ invoked' = [invoked EXCEPT ![r] =
            Append(@, [fn |-> NextActivity(s), input |-> ActivityInput(s, input, loc)])]
    /\ in_flight' = [in_flight EXCEPT ![r] =
            IF s = "Cloned" THEN @ \ done ELSE (@ \ done) \cup { NextActivity(s) }]

\* await workflow.execute_activity(fn, input) reached in state s with the
\* locals loc: the activity is handed to the engine and run is suspended.
\* done is the activity whose return resumed run (none at the start of run).
ExecuteActivity(r, done, s, input, loc) ==
    /\ invoked' = [invoked EXCEPT ![r] =
            Append(@, [fn |-> NextActivity(s), input |-> ActivityInput(s, input, loc)])]
    /\ in_flight' = [in_flight EXCEPT ![r] = (@ \ done) \cup { NextActivity(s) }]

\* create_pull_request with the feature flag on, up to the first suspension:
\* the workflow input is built, LocalWorkflowRunner.run calls
\* run_create_pull_request_workflow, which calls run, which invokes the first
\* activity.
CreatePullRequestWorkflow(r, req) ==
    /\ NextCall(r)
    /\ flag
    /\ request' = [request EXCEPT ![r] = Some(req)]
    /\ LET workflow_input == BuildWorkflowInput(DefaultContainerConfig, req)
       IN  /\ wf_input' = [wf_input EXCEPT ![r] = Some(workflow_input)]
           /\ ExecuteActivity(r, {}, "NotStarted", workflow_input, locals[r])
    /\ runner_calls' = [runner_calls EXCEPT ![r] = @ + 1]
    /\ ctl' = [ctl EXCEPT ![r] = "awaiting_runner"]
    /\ UNCHANGED << flag, response, raised, wf_state, visited, returned, locals, steps,
                    wf_result, failure, wf_error, drawn, call >>

Running(r) ==
    /\ ctl[r] = "awaiting_runner"
    /\ wf_error[r] = None
    /\ wf_result[r] = None

\* start_caas_container returns: run creates the step list and invokes
\* clone_repository.
StartCaasContainerReturns(r, uuid) ==
    /\ Running(r)
    /\ "start_caas_container" \in in_flight[r]
    /\ returned' = [returned EXCEPT ![r] = Append(@, "start_caas_container")]
    /\ wf_state' = [wf_state EXCEPT ![r] = "ContainerStarted"]
    /\ visited' = [visited EXCEPT ![r] = Append(@, "ContainerStarted")]
    /\ drawn' = [drawn EXCEPT ![r] = Append(@, uuid)]
    /\ LET container_handle == start_caas_container(Last(invoked[r]).input, uuid)
           loc == [locals[r] EXCEPT !.container_handle = Some(container_handle)]
       IN  /\ locals' = [locals EXCEPT ![r] = loc]
           /\ steps' = [steps EXCEPT ![r] =
                   << WorkflowStep(<< "start-container" >>,
                                   << "Started CaaS container " >> \o container_handle.container_id,
                                   << >>) >>]
           /\ ExecuteActivity(r, {"start_caas_container"}, "ContainerStarted",
                              wf_input[r].val, loc)
    /\ UNCHANGED << ctlVars, wf_input, wf_result, failure, wf_error, call >>

\* run resumes with clone_result; with reset the step list is rebuilt instead
\* of appended to.
CloneRepositoryResumes(r, clone_result, reset) ==
    /\ returned' = [returned EXCEPT ![r] = Append(@, "clone_repository")]
    /\ wf_state' = [wf_state EXCEPT ![r] = "Cloned"]
    /\ visited' = [visited EXCEPT ![r] = Append(@, "Cloned")]
    /\ locals' = [locals EXCEPT ![r].repository_path = Some(clone_result.repository_path)]
    /\ steps' = [steps EXCEPT ![r] =
            (IF reset THEN << >> ELSE @)
            \o << WorkflowStep(<< "clone-repository" >>,
                               << "Cloned repository into the container workspace" >>,
                               clone_result.commands) >>]
    /\ ExecuteActivity(r, {"clone_repository"}, "Cloned", wf_input[r].val,
                       [locals[r] EXCEPT !.repository_path = Some(clone_result.repository_path)])
    /\ UNCHANGED << ctlVars, wf_input, wf_result, failure, wf_error, drawn, call >>

\* CloneRepositoryReturns that rebuilds the step list instead of appending.
CloneRepositoryReturns_reset(r) ==
    /\ Running(r)
    /\ "clone_repository" \in in_flight[r]
    /\ CloneRepositoryResumes(r, clone_repository(Last(invoked[r]).input), TRUE)

\* clone_repository returns: run appends the step and invokes
\* apply_sediment_patch.
CloneRepositoryReturns(r) ==
    /\ Running(r)
    /\ "clone_repository" \in in_flight[r]
    /\ CloneRepositoryResumes(r, clone_repository(Last(invoked[r]).input), FALSE)

\* ApplySedimentPatchResumes with one step list shared by all runs: the step
\* is appended to the log of every run that waits for its patch.
ApplySedimentPatchResumes_shared(r, apply_patch_result) ==
    /\ returned' = [returned EXCEPT ![r] = Append(@, "apply_sediment_patch")]
    /\ wf_state' = [wf_state EXCEPT ![r] = "PatchApplied"]
    /\ visited' = [visited EXCEPT ![r] = Append(@, "PatchApplied")]
    /\ steps' = [q \in Runs |->
            IF Len(steps[q]) = 2
            THEN Append(steps[q],
                        WorkflowStep(<< "apply-sediment" >>,
                                     << "Downloaded sediment diff and applied it to the checkout" >>,
                                     apply_patch_result.commands))
            ELSE steps[q]]
    /\ ExecuteActivity(r, {"apply_sediment_patch"}, "PatchApplied", wf_input[r].val,
                       locals[r])
    /\ UNCHANGED << ctlVars, wf_input, locals, wf_result, failure, wf_error, drawn, call >>

ApplySedimentPatchResumes(r, apply_patch_result) ==
    /\ returned' = [returned EXCEPT ![r] = Append(@, "apply_sediment_patch")]
    /\ wf_state' = [wf_state EXCEPT ![r] = "PatchApplied"]
    /\ visited' = [visited EXCEPT ![r] = Append(@, "PatchApplied")]
    /\ steps' = [steps EXCEPT ![r] =
            Append(@, WorkflowStep(<< "apply-sediment" >>,
                                   << "Downloaded sediment diff and applied it to the checkout" >>,
                                   apply_patch_result.commands))]
    /\ ExecuteActivity(r, {"apply_sediment_patch"}, "PatchApplied", wf_input[r].val,
                       locals[r])
    /\ UNCHANGED << ctlVars, wf_input, locals, wf_result, failure, wf_error, drawn, call >>

\* apply_sediment_patch returns: run appends the step and invokes
\* create_branch_and_push.
ApplySedimentPatchReturns(r) ==
    /\ Running(r)
    /\ "apply_sediment_patch" \in in_flight[r]
    /\ ApplySedimentPatchResumes(r, apply_sediment_patch(Last(invoked[r]).input))

\* The aggregate result of run.
WorkflowResult(r, push_result, all_steps) ==
    [new_branch |-> wf_input[r].val.new_branch,
     container_id |-> locals[r].container_handle.val.container_id,
     commit_sha |-> push_result.commit_sha,
     steps |-> all_steps]

RunReturns(r, result) ==
    /\ steps' = [steps EXCEPT ![r] = result.steps]
    /\ wf_result' = [wf_result EXCEPT ![r] = Some(result)]
    /\ response' = [response EXCEPT ![r] = Some(MapResponse(result))]

\* CreateBranchAndPushResumes that logs the commands of the step before.
CreateBranchAndPushResumes_stale(r, push_result) ==
    /\ returned' = [returned EXCEPT ![r] = Append(@, "create_branch_and_push")]
    /\ in_flight' = [in_flight EXCEPT ![r] = @ \ {"create_branch_and_push"}]
    /\ wf_state' = [wf_state EXCEPT ![r] = "Completed"]
    /\ visited' = [visited EXCEPT ![r] = @ \o << "Pushed", "Completed" >>]
    /\ ctl' = [ctl EXCEPT ![r] = "returned"]
    /\ locals' = [locals EXCEPT ![r].commit_sha = Some(push_result.commit_sha)]
    /\ RunReturns(r, WorkflowResult(r, push_result,
            Append(steps[r],
                   WorkflowStep(<< "push-branch" >>,
                                << "Created the branch and pushed it to the remote" >>,
                                Last(steps[r]).commands))))
    /\ UNCHANGED << flag, request, runner_calls, raised, wf_input, invoked, failure,
                    wf_error, call >>

CreateBranchAndPushResumes(r, push_result) ==
    /\ returned' = [returned EXCEPT ![r] = Append(@, "create_branch_and_push")]
    /\ in_flight' = [in_flight EXCEPT ![r] = @ \ {"create_branch_and_push"}]
    /\ wf_state' = [wf_state EXCEPT ![r] = "Completed"]
    /\ visited' = [visited EXCEPT ![r] = @ \o << "Pushed", "Completed" >>]
    /\ ctl' = [ctl EXCEPT ![r] = "returned"]
    /\ locals' = [locals EXCEPT ![r].commit_sha = Some(push_result.commit_sha)]
    /\ RunReturns(r, WorkflowResult(r, push_result,
            Append(steps[r],
                   WorkflowStep(<< "push-branch" >>,
                                << "Created the branch and pushed it to the remote" >>,
                                push_result.commands))))
    /\ UNCHANGED << flag, request, runner_calls, raised, wf_input, invoked, failure,
                    wf_error, call >>

\* create_branch_and_push returns: run appends the last step (Pushed) and
\* returns the aggregate result (Completed); run_create_pull_request_workflow
\* checks the steps and hands the result to the runner; create_pull_request
\* maps it into the response.  Nothing is awaited in between.
CreateBranchAndPushReturns(r, uuid) ==
    /\ Running(r)
    /\ "create_branch_and_push" \in in_flight[r]
    /\ CreateBranchAndPushResumes(r, create_branch_and_push(Last(invoked[r]).input, uuid))
    /\ drawn' = [drawn EXCEPT ![r] = Append(@, uuid)]

\* ActivityFails with a local retry: the failure is swallowed and the activity
\* is invoked again.
ActivityFails_retry(r, e) ==
    /\ Running(r)
    /\ in_flight[r] # {}
    /\ failure' = [failure EXCEPT ![r] = Some(e)]
    /\ invoked' = [invoked EXCEPT ![r] = Append(@, Last(@))]
    /\ UNCHANGED << ctlVars, wf_input, wf_state, visited, in_flight, returned, locals, steps,
                    wf_result, wf_error, drawn, call >>

\* ActivityFails with a controller that answers a failed run with the steps
\* logged so far.
ActivityFails_partial(r, e) ==
    /\ Running(r)
    /\ in_flight[r] # {}
    /\ in_flight' = [in_flight EXCEPT ![r] = {}]
    /\ failure' = [failure EXCEPT ![r] = Some(e)]
    /\ wf_error' = [wf_error EXCEPT ![r] = Some(e)]
    /\ response' = [response EXCEPT ![r] =
            Some([branch |-> wf_input[r].val.new_branch, commit_sha |-> << >>,
                  used_temporal_workflow |-> TRUE, steps |-> steps[r]])]
    /\ ctl' = [ctl EXCEPT ![r] = "returned"]
    /\ UNCHANGED << flag, request, runner_calls, raised, wf_input, wf_state, visited, invoked,
                    returned, locals, steps, wf_result, drawn, call >>

\* The activity in flight raises e: execute_activity does not catch it, run
\* has no except clause, neither have the runner and create_pull_request.
ActivityFails(r, e) ==
    /\ Running(r)
    /\ in_flight[r] # {}
    /\ in_flight' = [in_flight EXCEPT ![r] = {}]
    /\ failure' = [failure EXCEPT ![r] = Some(e)]
    /\ wf_error' = [wf_error EXCEPT ![r] = Some(e)]
    /\ raised' = [raised EXCEPT ![r] = Some(e)]
    /\ ctl' = [ctl EXCEPT ![r] = "raised"]
    /\ UNCHANGED << flag, request, runner_calls, response, wf_input, wf_state, visited, invoked,
                    returned, locals, steps, wf_result, drawn, call >>

Next ==
    \/ \E r \in Runs, req \in Requests : CreatePullRequestLegacy(r, req)
    \/ \E r \in Runs, req \in Requests : CreatePullRequestWorkflow(r, req)
    \/ \E r \in Runs, uuid \in UuidOutcomes : StartCaasContainerReturns(r, uuid)
    \/ \E r \in Runs : CloneRepositoryReturns(r)
    \/ \E r \in Runs : ApplySedimentPatchReturns(r)
    \/ \E r \in Runs, uuid \in UuidOutcomes : CreateBranchAndPushReturns(r, uuid)
    \/ \E r \in Runs, e \in Errors : ActivityFails(r, e)

Spec == Init /\ [][Next]_vars

\* execute_activity calls the activity function at once, so an activity in
\* flight does return or raise.  The fairness asked of the engine is the least
\* that says so: while activities are in flight, one of them completes.
ActivityCompletes(r) ==
    \/ \E e \in Errors : ActivityFails(r, e)
    \/ \E uuid \in UuidOutcomes : StartCaasContainerReturns(r, uuid)
    \/ CloneRepositoryReturns(r)
    \/ ApplySedimentPatchReturns(r)
    \/ \E uuid \in UuidOutcomes : CreateBranchAndPushReturns(r, uuid)

SpecLive == Spec /\ WF_vars(\E r \in Runs : ActivityCompletes(r))

----------------------------------------------------------------------------
(* The activity functions called directly, once, on inputs drawn from bounded sets *)

WorkspaceDirs == { << >>, << "/" >>, << "/", "workspace" >>, << "/", "workspace", "/" >> }
CheckoutPaths == { << >>, << "repo" >>, << "repo", "/" >>, << "/" >> }
Depths == 0..MaxDepth
SparsePaths == { None, Some(<< >>), Some(<< << "a" >> >>),
                 Some(<< << "a" >>, << "b" >> >>), Some(<< << "b" >>, << "a" >> >>),
                 Some(<< << >>, << "a" >> >>) }
CloneInputs ==
    { [container |-> [container_id |-> << "caas-", "u", "1" >>, workspace_dir |-> w],
       options |-> [repository_url |-> url, branch |-> b, depth |-> d, sparse_paths |-> sp],
       checkout_path |-> cp] :
         w \in WorkspaceDirs, url \in { << >>, RepoUrl }, b \in { << >>, << "main" >> },
         d \in Depths, sp \in SparsePaths, cp \in CheckoutPaths }

ApplyInputs ==
    { [container |-> [container_id |-> << "caas-", "u", "1" >>,
                      workspace_dir |-> ContainerConfig_workspace_dir],
       repository_path |-> p,
       sediment |-> [storage_key |-> k, filename |-> f]] :
         p \in { << >>, << "/", "workspace", "/", "repo" >> },
         k \in { << >>, << "sediment-key" >> },
         f \in { << >>, SedimentArtifact_filename, << "other.patch" >> } }

PushInputs ==
    { [container |-> [container_id |-> << "caas-", "u", "1" >>,
                      workspace_dir |-> ContainerConfig_workspace_dir],
       repository_path |-> p, new_branch |-> nb, base_branch |-> bb,
       commit |-> [message |-> m, author_name |-> an, author_email |-> ae],
       push |-> [remote |-> rem, force |-> f]] :
         p \in { << >>, << "/", "workspace", "/", "repo" >> },
         nb \in { << >>, << "feature" >>, << "--force" >> },
         bb \in { << >>, << "main" >>, << "--force" >> },
         m \in { << >>, << "Apply sediment" >>, << "--force" >> },
         an \in { << >>, << "Ada Lovelace" >> },
         ae \in { << >>, << "ada@example.com" >> },
         rem \in { << >>, << "origin" >>, << "--force" >> },
         f \in BOOLEAN }

CallStartCaasContainer(config, uuid) ==
    /\ call = None
    /\ call' = Some([fn |-> "start_caas_container", input |-> config,
                     result |-> start_caas_container(config, uuid)])
    /\ UNCHANGED << ctlVars, wfVars >>

CallCloneRepository(input) ==
    /\ call = None
    /\ call' = Some([fn |-> "clone_repository", input |-> input,
                     result |-> clone_repository(input)])
    /\ UNCHANGED << ctlVars, wfVars >>

CallApplySedimentPatch(input) ==
    /\ call = None
    /\ call' = Some([fn |-> "apply_sediment_patch", input |-> input,
                     result |-> apply_sediment_patch(input)])
    /\ UNCHANGED << ctlVars, wfVars >>

CallCreateBranchAndPush(input, uuid) ==
    /\ call = None
    /\ call' = Some([fn |-> "create_branch_and_push", input |-> input,
                     result |-> create_branch_and_push(input, uuid)])
    /\ UNCHANGED << ctlVars, wfVars >>

NextActivities ==
    \/ \E w \in WorkspaceDirs, uuid \in Uuids :
          CallStartCaasContainer([DefaultContainerConfig EXCEPT !.workspace_dir = w], uuid)
    \/ \E input \in CloneInputs : CallCloneRepository(input)
    \/ \E input \in ApplyInputs : CallApplySedimentPatch(input)
    \/ \E input \in PushInputs, uuid \in Uuids : CallCreateBranchAndPush(input, uuid)

SpecActivities == Init /\ [][NextActivities]_vars

----------------------------------------------------------------------------
(* One call of create_pull_request with the flag on and no push options, on
   requests drawn from a bounded set, run to its response *)

RequestsNoPushOptions ==
    { [repository_url |-> url, base_branch |-> bb, new_branch |-> nb,
       sediment_storage_key |-> k, commit_message |-> m,
       author_name |-> << "Ada Lovelace" >>, author_email |-> << "ada@example.com" >>,
       push_options |-> None] :
         url \in { << >>, RepoUrl }, bb \in { << >>, << "main" >> },
         nb \in { << >>, << "feature" >> }, k \in { << >>, << "sediment-key" >> },
         m \in { << >>, << "Apply sediment" >> } }

InitFlagOn == Init /\ flag

NextDefaults ==
    \/ \E req \in RequestsNoPushOptions : CreatePullRequestWorkflow(1, req)
    \/ \E uuid \in UuidOutcomes : StartCaasContainerReturns(1, uuid)
    \/ CloneRepositoryReturns(1)
    \/ ApplySedimentPatchReturns(1)
    \/ \E uuid \in UuidOutcomes : CreateBranchAndPushReturns(1, uuid)

SpecDefaults == InitFlagOn /\ [][NextDefaults]_vars

----------------------------------------------------------------------------
(* Properties *)

IsPrefix(s, t) == Len(s) <= Len(t) /\ s = SubSeq(t, 1, Len(s))

InvokedNames(r) == [i \in 1..Len(invoked[r]) |-> invoked[r][i].fn]
StepLogNames(r) == [i \in 1..Len(steps[r]) |-> steps[r][i].name]
Failed(r) == IF failure[r] # None THEN 1 ELSE 0

\* C1 (state part): the activities invoked so far are a prefix of the fixed
\* order, at most one is in flight, an activity is invoked only when every
\* earlier one has returned, and the state is the one the returned activities
\* lead to, reached through every state before it in the order NotStarted,
\* ContainerStarted, Cloned, PatchApplied, Pushed, Completed; a completed run
\* has invoked each activity exactly once.
C1_StateOk(r) ==
    /\ IsPrefix(InvokedNames(r), ActivityOrder)
    /\ Cardinality(in_flight[r]) <= 1
    /\ Len(invoked[r]) = Len(returned[r]) + Cardinality(in_flight[r]) + Failed(r)
    /\ in_flight[r] # {} => in_flight[r] = { Last(invoked[r]).fn }
    /\ IsPrefix(returned[r], ActivityOrder)
    /\ IsPrefix(visited[r], StateOrder)
    /\ wf_state[r] = Last(visited[r])
    /\ IF wf_state[r] = "Completed"
       THEN InvokedNames(r) = ActivityOrder /\ returned[r] = ActivityOrder
       ELSE StateIndex(wf_state[r]) = Len(returned[r]) + 1

\* C1 (step part): a step only extends the states passed through, and the
\* activities invoked and returned.
C1_StepOk(r) ==
    /\ IsPrefix(visited[r], visited'[r])
    /\ IsPrefix(invoked[r], invoked'[r])
    /\ IsPrefix(returned[r], returned'[r])

\* C1: in every run the activities are invoked in the order
\* start_caas_container, clone_repository, apply_sediment_patch,
\* create_branch_and_push, each once, each only after the previous one returned,
\* and the state moves NotStarted, ContainerStarted, Cloned, PatchApplied,
\* Pushed, Completed one state at a time with at most one activity in flight.
C1_SequentialOrder ==
    /\ [](\A r \in Runs : C1_StateOk(r))
    /\ [][\A r \in Runs : C1_StepOk(r)]_vars

C1_Witness ==
    \E r \in Runs : wf_state[r] = "Completed" /\ Len(invoked[r]) = 4

C2_StateOk(r) ==
    /\ IsPrefix(StepLogNames(r), StepNames)
    /\ Len(steps[r]) = Len(returned[r])
    /\ Len(steps[r]) = (IF wf_state[r] = "Completed" THEN 4
                        ELSE StateIndex(wf_state[r]) - 1)

C2_StepOk(r) ==
    /\ IsPrefix(steps[r], steps'[r])
    /\ Len(steps'[r]) <= Len(steps[r]) + 1

\* C2: at every point the names of the step log are a prefix of
\* [start-container, clone-repository, apply-sediment, push-branch], its length
\* is the number of activities completed, and a step of the run extends the
\* log by at most one entry and leaves the entries it has as they are.
C2_StepLogPrefix ==
    /\ [](\A r \in Runs : C2_StateOk(r))
    /\ [][\A r \in Runs : C2_StepOk(r)]_vars

C2_Witness ==
    \E r \in Runs : Len(steps[r]) = 3 /\ "create_branch_and_push" \in in_flight[r]

C3_StateOk(r) ==
    failure[r] # None =>
        /\ in_flight[r] = {}
        /\ wf_error[r] = failure[r]
        /\ wf_result[r] = None
        /\ wf_state[r] = StateOrder[Len(invoked[r])]
        /\ Len(returned[r]) = Len(invoked[r]) - 1
        /\ Len(steps[r]) = Len(invoked[r]) - 1
        /\ IsPrefix(InvokedNames(r), ActivityOrder)

C3_StepOk(r) ==
    (failure[r] # None \/ failure'[r] # None) =>
        /\ invoked'[r] = invoked[r]
        /\ steps'[r] = steps[r]
        /\ wf_state'[r] = wf_state[r]
        /\ returned'[r] = returned[r]
        /\ wf_result'[r] = None
        /\ in_flight'[r] = {}

\* C3: when an activity fails the run halts in the state it had reached: from
\* the failing step on no activity is invoked (neither a later one, nor the
\* failed one again, nor any other), no step is appended, no result is
\* returned, and the exception that leaves run is the one the activity raised.
C3_FailureHalts ==
    /\ [](\A r \in Runs : C3_StateOk(r))
    /\ [][\A r \in Runs : C3_StepOk(r)]_vars

C3_Witness ==
    \E r \in Runs : /\ failure[r] # None
                    /\ wf_state[r] = "Cloned"
                    /\ Len(invoked[r]) = 3

C4_StateOk(r) ==
    (flag /\ wf_error[r] # None) =>
        /\ raised[r] = wf_error[r]
        /\ response[r] = None
        /\ ctl[r] = "raised"

\* C4: with the flag on, when the runner fails create_pull_request raises the
\* runner's exception unchanged and never returns a response for that call.
C4_NoPartialResponse ==
    /\ [](\A r \in Runs : C4_StateOk(r))
    /\ [][\A r \in Runs : response[r] = None /\ response'[r] # None =>
                             wf_error'[r] = None /\ raised'[r] = None]_vars

C4_Witness ==
    \E r \in Runs : /\ flag
                    /\ wf_error[r] = Some("ActivityFailure")
                    /\ Len(steps[r]) = 2
                    /\ raised[r] = Some("ActivityFailure")

\* C5: with the flag off every call returns used_workflow=false, an empty
\* commit sha and an empty step log, and neither the runner nor an activity is
\* invoked.
C5_LegacyPath ==
    ~flag => \A r \in Runs :
        /\ runner_calls[r] = 0
        /\ invoked[r] = << >>
        /\ in_flight[r] = {}
        /\ steps[r] = << >>
        /\ raised[r] = None
        /\ ctl[r] \in { "idle", "returned" }
        /\ ctl[r] = "returned" =>
              /\ response[r] # None
              /\ response[r].val.used_temporal_workflow = FALSE
              /\ response[r].val.commit_sha = << >>
              /\ response[r].val.steps = << >>

C5_Witness ==
    /\ ~flag
    /\ \E r \in Runs : /\ ctl[r] = "returned"
                       /\ request[r].val.push_options # None
                       /\ request[r].val.push_options.val.force

\* C6: with the flag on a call that returns has invoked the runner exactly
\* once and its response has used_workflow=true, the request's new branch, the
\* commit sha of the workflow result and the four step names in order.
C6_WorkflowResponse ==
    flag => \A r \in Runs :
        /\ runner_calls[r] = (IF ctl[r] = "idle" THEN 0 ELSE 1)
        /\ ctl[r] = "returned" =>
              /\ response[r] # None
              /\ response[r].val.used_temporal_workflow = TRUE
              /\ response[r].val.branch = request[r].val.new_branch
              /\ response[r].val.commit_sha = wf_result[r].val.commit_sha
              /\ response[r].val.commit_sha = locals[r].commit_sha.val
              /\ Len(response[r].val.steps) = 4
              /\ [i \in 1..4 |-> response[r].val.steps[i].name] = StepNames

C6_Witness ==
    /\ flag
    /\ \E r \in Runs : ctl[r] = "returned" /\ response[r].val.used_temporal_workflow

\* Every token of every command in a list of commands.
TokensOf(commands) ==
    UNION { { commands[i][j] : j \in 1..Len(commands[i]) } : i \in 1..Len(commands) }

Called(fn) == call # None /\ call.val.fn = fn

\* C7: no command built by clone_repository, apply_sediment_patch or
\* create_branch_and_push, and no command of a step in a run's step log,
\* contains the empty string as a token.
C7_NoEmptyToken ==
    /\ \A fn \in { "clone_repository", "apply_sediment_patch", "create_branch_and_push" } :
          Called(fn) => << >> \notin TokensOf(call.val.result.commands)
    /\ \A r \in Runs : \A i \in 1..Len(steps[r]) :
          << >> \notin TokensOf(steps[r][i].commands)

\* The text fields of a CreateBranchAndPushActivityInput that become tokens.
PushInputTexts(input) ==
    { input.repository_path, input.base_branch, input.new_branch,
      input.commit.message, input.push.remote }

\* C8 as stated: for every input, force false yields 4 commands none of which
\* contains the token "--force", force true yields a push command ending in
\* "--force".
C8_Original ==
    Called("create_branch_and_push") =>
        LET input == call.val.input
            commands == call.val.result.commands
        IN  /\ ~input.push.force =>
                  /\ Len(commands) = 4
                  /\ << "--force" >> \notin TokensOf(commands)
            /\ input.push.force => Last(commands[4]) = << "--force" >>

\* C8 amended: force false yields 4 commands, and "--force" is a token of one
\* of them only when repository_path, base_branch, new_branch, the commit
\* message or the remote is itself "--force"; force true yields a push command
\* whose final token is "--force".
C8_ForceToken ==
    Called("create_branch_and_push") =>
        LET input == call.val.input
            commands == call.val.result.commands
        IN  /\ ~input.push.force =>
                  /\ Len(commands) = 4
                  /\ << "--force" >> \in TokensOf(commands) =>
                        << "--force" >> \in PushInputTexts(input)
            /\ input.push.force => Last(commands[4]) = << "--force" >>

C8_Witness ==
    /\ Called("create_branch_and_push")
    /\ ~call.val.input.push.force
    /\ << "--force" >> \notin PushInputTexts(call.val.input)
    /\ << >> \notin PushInputTexts(call.val.input)
    /\ Len(call.val.result.commands[4]) = 6

\* C9: create_branch_and_push returns exactly four commands: checkout of the
\* base branch, checkout -B of the new branch, commit --all with --message
\* <message> and --author "<name> <<email>>", push of the new branch to the
\* remote (followed by --force only when push.force).
C9_FourCommands ==
    Called("create_branch_and_push") =>
        LET input == call.val.input
            commands == call.val.result.commands
            path == input.repository_path
        IN  /\ Len(commands) = 4
            /\ commands[1] = << << "git" >>, << "-C" >>, path, << "checkout" >>,
                                input.base_branch >>
            /\ commands[2] = << << "git" >>, << "-C" >>, path, << "checkout" >>,
                                << "-B" >>, input.new_branch >>
            /\ Len(commands[3]) = 9
            /\ SubSeq(commands[3], 1, 6) = << << "git" >>, << "-C" >>, path, << "commit" >>,
                                              << "--all" >>, << "--message" >> >>
            /\ commands[3][7] = input.commit.message
            /\ commands[3][8] = << "--author" >>
            /\ commands[3][9] = input.commit.author_name \o << " ", "<" >>
                                   \o input.commit.author_email \o << ">" >>
            /\ Len(commands[4]) = (IF input.push.force THEN 7 ELSE 6)
            /\ SubSeq(commands[4], 1, 6) = << << "git" >>, << "-C" >>, path, << "push" >>,
                                              input.push.remote, input.new_branch >>
            /\ input.push.force => commands[4][7] = << "--force" >>

DigitValue(c) == CHOOSE d \in 0..9 : Digits[d + 1] = c

RECURSIVE ParseNat(_)
\* the number a sequence of decimal digits denotes
ParseNat(s) ==
    IF Len(s) = 1 THEN DigitValue(s[1])
    ELSE 10 * ParseNat(SubSeq(s, 1, Len(s) - 1)) + DigitValue(Last(s))

\* C10: clone_repository returns one clone command whose tokens after
\* "git clone" are the blob filter, --sparse, --depth=<depth>,
\* --branch=<branch>, --single-branch, the URL and the resolved checkout path,
\* and a second command "git -C <path> sparse-checkout set <paths...>" with the
\* paths in the given order exactly when sparse_paths is non-empty.
C10_CloneCommands ==
    Called("clone_repository") =>
        LET input == call.val.input
            result == call.val.result
            clone == result.commands[1]
            sparse == input.options.sparse_paths
            nonEmpty == (sparse # None) /\ Len(sparse.val) > 0
        IN  /\ Len(result.commands) \in { 1, 2 }
            /\ Len(clone) = 9
            /\ SubSeq(clone, 1, 4) = << << "git" >>, << "clone" >>,
                                        << "--filter=blob:none" >>, << "--sparse" >> >>
            /\ Head(clone[5]) = "--depth="
            /\ ParseNat(Tail(clone[5])) = input.options.depth
            /\ clone[6] = << "--branch=" >> \o input.options.branch
            /\ clone[7] = << "--single-branch" >>
            /\ clone[8] = input.options.repository_url
            /\ clone[9] = result.repository_path
            /\ (Len(result.commands) = 2) <=> nonEmpty
            /\ nonEmpty =>
                 /\ SubSeq(result.commands[2], 1, 5) =
                        << << "git" >>, << "-C" >>, result.repository_path,
                           << "sparse-checkout" >>, << "set" >> >>
                 /\ SubSeq(result.commands[2], 6, Len(result.commands[2])) = sparse.val

C10_Witness ==
    /\ Called("clone_repository")
    /\ call.val.input.options.sparse_paths = Some(<< << "b" >>, << "a" >> >>)
    /\ call.val.input.options.depth = 12
    /\ Len(call.val.result.commands) = 2

\* C11: apply_sediment_patch returns, for every input, exactly three commands
\* in the order download, upload, apply: "artifact download <storage_key>
\* <filename>", "caas upload <filename> <repository_path>/<filename>" and
\* "git -C <repository_path> apply <filename>".
C11_ApplyCommands ==
    Called("apply_sediment_patch") =>
        LET input == call.val.input
            commands == call.val.result.commands
            filename == input.sediment.filename
        IN  /\ Len(commands) = 3
            /\ commands[1] = << << "artifact" >>, << "download" >>,
                                input.sediment.storage_key, filename >>
            /\ commands[2] = << << "caas" >>, << "upload" >>, filename,
                                input.repository_path \o << "/" >> \o filename >>
            /\ commands[3] = << << "git" >>, << "-C" >>, input.repository_path,
                                << "apply" >>, filename >>

C11_Witness ==
    /\ Called("apply_sediment_patch")
    /\ call.val.input.sediment.filename = << "other.patch" >>
    /\ call.val.input.sediment.storage_key = << >>
    /\ call.val.result.commands[2][4] = << "/", "workspace", "/", "repo", "/", "other.patch" >>

\* s occurs in t as a contiguous piece of text.
Contains(t, s) ==
    \E i \in 1..(Len(t) - Len(s) + 1) : SubSeq(t, i, i + Len(s) - 1) = s

\* The identifiers generated so far: container ids and commit shas.
Identifiers ==
    { locals[r].container_handle.val.container_id :
          r \in { q \in Runs : locals[q].container_handle # None } }
    \cup { locals[r].commit_sha.val : r \in { q \in Runs : locals[q].commit_sha # None } }

StepCommands(r) == [i \in 1..Len(steps[r]) |-> steps[r][i].commands]

\* C12: two runs with identical input (a re-execution from the start is a
\* second run with the same input) have, as far as both have got, the same
\* step names in the same order and the same command list in every step; two
\* completed ones differ at most in container id, commit sha and the
\* description that quotes the container id; no generated identifier occurs in
\* a command token.
C12_ReplayDeterminism ==
    /\ \A r1, r2 \in Runs :
          (wf_input[r1] # None /\ wf_input[r1] = wf_input[r2]) =>
              /\ \A i \in 1..Len(steps[r1]) : i <= Len(steps[r2]) =>
                    /\ steps[r1][i].name = steps[r2][i].name
                    /\ steps[r1][i].commands = steps[r2][i].commands
                    /\ i > 1 => steps[r1][i] = steps[r2][i]
              /\ (wf_result[r1] # None /\ wf_result[r2] # None) =>
                    /\ wf_result[r1].val.new_branch = wf_result[r2].val.new_branch
                    /\ Len(wf_result[r1].val.steps) = Len(wf_result[r2].val.steps)
    /\ \A r \in Runs : \A i \in 1..Len(steps[r]) :
          \A t \in TokensOf(steps[r][i].commands) : \A id \in Identifiers :
              ~Contains(t, id)

C12_Witness ==
    \E r1, r2 \in Runs :
        /\ r1 # r2
        /\ wf_result[r1] # None /\ wf_result[r2] # None
        /\ wf_input[r1] = wf_input[r2]
        /\ wf_result[r1].val.container_id # wf_result[r2].val.container_id
        /\ wf_result[r1].val.commit_sha # wf_result[r2].val.commit_sha
        /\ StepCommands(r1) = StepCommands(r2)

Started(r) == locals[r].container_handle # None
ContainerId(r) == locals[r].container_handle.val.container_id

RunState(r) ==
    << ctl[r], request[r], runner_calls[r], response[r], raised[r], wf_input[r],
       wf_state[r], visited[r], in_flight[r], invoked[r], returned[r], locals[r],
       steps[r], wf_result[r], failure[r], wf_error[r], drawn[r] >>
RunStateNext(r) ==
    << ctl'[r], request'[r], runner_calls'[r], response'[r], raised'[r], wf_input'[r],
       wf_state'[r], visited'[r], in_flight'[r], invoked'[r], returned'[r], locals'[r],
       steps'[r], wf_result'[r], failure'[r], wf_error'[r], drawn'[r] >>

\* The step log of a run of its own, computed from the request and the values
\* uuid4() yielded: each activity applied to the result of the one before.
OwnPushStep(input, handle, path, uuid) ==
    WorkflowStep(<< "push-branch" >>, << "Created the branch and pushed it to the remote" >>,
        create_branch_and_push(
            [container |-> handle, repository_path |-> path,
             new_branch |-> input.new_branch, base_branch |-> input.clone.branch,
             commit |-> input.commit, push |-> input.push], uuid).commands)
OwnApplyStep(input, handle, path) ==
    WorkflowStep(<< "apply-sediment" >>,
        << "Downloaded sediment diff and applied it to the checkout" >>,
        apply_sediment_patch([container |-> handle, repository_path |-> path,
                              sediment |-> input.sediment]).commands)
OwnLogFromClone(input, handle, clone_result, uuid) ==
    << WorkflowStep(<< "start-container" >>,
                    << "Started CaaS container " >> \o handle.container_id, << >>),
       WorkflowStep(<< "clone-repository" >>,
                    << "Cloned repository into the container workspace" >>,
                    clone_result.commands),
       OwnApplyStep(input, handle, clone_result.repository_path),
       OwnPushStep(input, handle, clone_result.repository_path, uuid) >>
OwnLogFromHandle(input, handle, uuid) ==
    OwnLogFromClone(input, handle,
        clone_repository([container |-> handle, options |-> input.clone,
                          checkout_path |-> CloneRepositoryActivityInput_checkout_path]),
        uuid)
OwnLog(req, draws) ==
    OwnLogFromHandle(BuildWorkflowInput(DefaultContainerConfig, req),
                     start_caas_container(DefaultContainerConfig, draws[1]),
                     Last(draws))

C14_StateOk(r) ==
    /\ Started(r) => IsPrefix(steps[r], OwnLog(request[r].val, drawn[r]))
    /\ wf_result[r] # None =>
          /\ wf_result[r].val =
                [new_branch |-> request[r].val.new_branch,
                 container_id |-> << "caas-" >> \o drawn[r][1],
                 commit_sha |-> drawn[r][2],
                 steps |-> OwnLog(request[r].val, drawn[r])]
          /\ response[r].val.steps = wf_result[r].val.steps

\* C14: under every interleaving of the runs at their activity boundaries, a
\* step of one run leaves everything of every other run as it is, and a run's
\* step log, branch name, container identifier and commit identifier are the
\* ones its own activities returned for its own request.
C14_RunIsolation ==
    /\ [](\A r \in Runs : C14_StateOk(r))
    /\ [][\E r \in Runs : \A q \in Runs \ {r} : RunStateNext(q) = RunState(q)]_vars

\* Two runs with different requests, interleaved so that the second is started
\* and completed while the first is suspended.
C14_Witness ==
    \E r1, r2 \in Runs :
        /\ request[r1] # None /\ request[r2] # None
        /\ request[r1] # request[r2]
        /\ wf_result[r2] # None
        /\ wf_state[r1] = "Cloned"
        /\ "apply_sediment_patch" \in in_flight[r1]

HasEmptyToken(r) ==
    \E i \in 1..Len(steps[r]) : << >> \in TokensOf(steps[r][i].commands)

\* C15: an activity invoked out of its order, or a command list in which an
\* empty token survives, ends the run with the fatal error
\* OrchestrationInvariantViolation and never with a result.
C15_ViolationReported ==
    \A r \in Runs :
        (HasEmptyToken(r) \/ ~IsPrefix(InvokedNames(r), ActivityOrder)) =>
            /\ wf_error[r] = Some("OrchestrationInvariantViolation")
            /\ wf_result[r] = None
            /\ response[r] = None

C16_StateOk(r) ==
    /\ (ctl[r] = "awaiting_runner" /\ failure[r] = None) => in_flight[r] # {}
    /\ ctl[r] = "raised" <=> failure[r] # None
    /\ (flag /\ ctl[r] = "returned") <=> wf_state[r] = "Completed"
    /\ wf_state[r] = "Completed" <=> wf_result[r] # None
    /\ wf_result[r] # None =>
          /\ Len(wf_result[r].val.steps) = 4
          /\ failure[r] = None
          /\ returned[r] = ActivityOrder

\* C16: every run that has been started ends: eventually no run is suspended
\* any more, and a run that is not suspended and has not failed is Completed
\* and has returned a result with exactly 4 steps; a run that is suspended has
\* an activity in flight.
C16_Termination ==
    /\ [](\A r \in Runs : C16_StateOk(r))
    /\ <>[](\A r \in Runs : ctl[r] # "awaiting_runner")

C16_Witness ==
    \E r \in Runs :
        /\ wf_state[r] = "Completed"
        /\ failure[r] = None
        /\ Len(wf_result[r].val.steps) = 4
        /\ ctl[r] = "returned"

\* The input the i-th activity of run r was invoked with.
InputOf(r, i) == invoked[r][i].input

\* C17: within a run the handle returned by start_caas_container is the
\* container of the inputs of clone, patch-apply and branch-and-push; the
\* repository path returned by clone_repository is the repository_path of the
\* inputs of patch-apply and branch-and-push; the base branch of
\* branch-and-push is the clone branch; the other fields are taken from the
\* workflow input; and the result carries the provisioned container id, the
\* commit sha branch-and-push returned and the input's new branch.
C17_DataFlow ==
    \A r \in Runs :
        LET n == Len(invoked[r])
            input == wf_input[r].val
        IN  /\ n >= 1 => InputOf(r, 1) = input.container
            /\ n >= 2 =>
                  /\ InputOf(r, 2).container =
                        start_caas_container(InputOf(r, 1), drawn[r][1])
                  /\ InputOf(r, 2).options = input.clone
            /\ n >= 3 =>
                  /\ InputOf(r, 3).container = InputOf(r, 2).container
                  /\ InputOf(r, 3).repository_path =
                        clone_repository(InputOf(r, 2)).repository_path
                  /\ InputOf(r, 3).sediment = input.sediment
            /\ n >= 4 =>
                  /\ InputOf(r, 4).container = InputOf(r, 2).container
                  /\ InputOf(r, 4).repository_path = InputOf(r, 3).repository_path
                  /\ InputOf(r, 4).base_branch = InputOf(r, 2).options.branch
                  /\ InputOf(r, 4).new_branch = input.new_branch
                  /\ InputOf(r, 4).commit = input.commit
                  /\ InputOf(r, 4).push = input.push
            /\ wf_result[r] # None =>
                  /\ wf_result[r].val.container_id = InputOf(r, 2).container.container_id
                  /\ wf_result[r].val.commit_sha =
                        create_branch_and_push(InputOf(r, 4), drawn[r][2]).commit_sha
                  /\ wf_result[r].val.new_branch = input.new_branch

C17_Witness ==
    \E r \in Runs :
        /\ wf_result[r] # None
        /\ InputOf(r, 4).base_branch = << "main" >>
        /\ InputOf(r, 4).new_branch = << "hotfix" >>
        /\ InputOf(r, 4).repository_path = << "/", "workspace", "/", "repo" >>
        /\ InputOf(r, 4).push.force

\* C18: the commands of each step in the log are the commands the activity of
\* that step returned for the input it was invoked with, and the first entry
\* of the log is the start-container step with an empty command list; the
\* response carries the same steps.
C18_StepCommands ==
    \A r \in Runs :
        /\ Len(steps[r]) >= 1 =>
              /\ steps[r][1].name = << "start-container" >>
              /\ steps[r][1].commands = << >>
        /\ Len(steps[r]) >= 2 =>
              steps[r][2].commands = clone_repository(InputOf(r, 2)).commands
        /\ Len(steps[r]) >= 3 =>
              steps[r][3].commands = apply_sediment_patch(InputOf(r, 3)).commands
        /\ Len(steps[r]) >= 4 =>
              steps[r][4].commands =
                  create_branch_and_push(InputOf(r, 4), drawn[r][2]).commands
        /\ wf_result[r] # None =>
              /\ Len(steps[r]) = 4
              /\ wf_result[r].val.steps = steps[r]
              /\ StepCommands(r) =
                    [i \in 1..4 |-> response[r].val.steps[i].commands]

C18_Witness ==
    \E r \in Runs :
        /\ wf_result[r] # None
        /\ Len(steps[r][2].commands) = 1
        /\ Len(steps[r][3].commands) = 3
        /\ Len(steps[r][4].commands) = 4
        /\ Len(steps[r][4].commands[4]) = 7

\* C19: for every workspace_dir and checkout_path the repository_path of
\* clone_repository is workspace_dir "/" checkout_path with the trailing "/"
\* trimmed; it does not end with "/", it is not the empty string, and it is the
\* last token of the clone command.
C19_RepositoryPath ==
    Called("clone_repository") =>
        LET input == call.val.input
            path == call.val.result.repository_path
        IN  /\ path = rstrip(input.container.workspace_dir \o << "/" >>
                                \o input.checkout_path, {"/"})
            /\ path # << >>
            /\ Last(path) # "/"
            /\ Last(call.val.result.commands[1]) = path

\* C20: for every input the four commands of create_branch_and_push have 5, 6,
\* 9 and 6 tokens (7 when push.force), with the base branch last in the first,
\* the new branch last in the second, the message 7th and the author string
\* 9th in the third, the remote 5th and the new branch 6th in the fourth.
C20_TokenCounts ==
    Called("create_branch_and_push") =>
        LET input == call.val.input
            commands == call.val.result.commands
        IN  /\ [i \in 1..Len(commands) |-> Len(commands[i])] =
                  << 5, 6, 9, IF input.push.force THEN 7 ELSE 6 >>
            /\ commands[1][5] = input.base_branch
            /\ commands[2][6] = input.new_branch
            /\ commands[3][7] = input.commit.message
            /\ commands[3][9] = input.commit.author_name \o << " ", "<" >>
                                   \o input.commit.author_email \o << ">" >>
            /\ commands[4][5] = input.push.remote
            /\ commands[4][6] = input.new_branch

\* C21: a flag-on call whose request has no push options runs the workflow
\* with remote "origin", force false, clone depth 1, the request's base branch
\* as clone branch and no sparse paths; in its response the clone-repository
\* step has exactly one command and the push command ends with the new branch
\* name and has no token "--force".
C21_DefaultsApplied ==
    \A r \in Runs :
        (flag /\ request[r] # None /\ request[r].val.push_options = None) =>
            /\ wf_input[r] # None
            /\ wf_input[r].val.push = [remote |-> << "origin" >>, force |-> FALSE]
            /\ wf_input[r].val.clone.depth = 1
            /\ wf_input[r].val.clone.branch = request[r].val.base_branch
            /\ wf_input[r].val.clone.sparse_paths = None
            /\ response[r] # None =>
                  LET push_command == Last(response[r].val.steps[4].commands)
                  IN  /\ response[r].val.steps[2].name = << "clone-repository" >>
                      /\ Len(response[r].val.steps[2].commands) = 1
                      /\ Last(push_command) = request[r].val.new_branch
                      /\ \A j \in 1..Len(push_command) : push_command[j] # << "--force" >>

TypeOK ==
    /\ flag \in BOOLEAN
    /\ \A r \in Runs : wf_state[r] \in { StateOrder[i] : i \in 1..Len(StateOrder) }

====
